---- MODULE Spec2Model ----
(***************************************************************************)
(* The SQL front end of easy_db: the Lexer (src/sql/parser/lexer.rs) and   *)
(* the recursive-descent Parser (src/sql/parser/ast.rs) that draws from it *)
(* through one token of lookahead.                                         *)
(*                                                                         *)
(* A text is a sequence of one-character strings.  A message is the        *)
(* sequence of the fragments that format! concatenates.                    *)
(***************************************************************************)
EXTENDS Integers, Sequences, FiniteSets, TLC

\* ------------------------------------------------------------------ bounds

\* longest text enumerated exhaustively over TextAlphabet
MaxTextLen == 3

\* most tokens a token stream yields before it ends
MaxTokens == 10

\* ------------------------------------------------------------- characters

Upper == << "A", "B", "C", "D", "E", "F", "G", "H", "I", "J", "K", "L", "M",
            "N", "O", "P", "Q", "R", "S", "T", "U", "V", "W", "X", "Y", "Z" >>

Lower == << "a", "b", "c", "d", "e", "f", "g", "h", "i", "j", "k", "l", "m",
            "n", "o", "p", "q", "r", "s", "t", "u", "v", "w", "x", "y", "z" >>

Range(s) == { s[i] : i \in DOMAIN s }

\* char::is_digit(10)
Digits == { "0", "1", "2", "3", "4", "5", "6", "7", "8", "9" }

\* char::is_whitespace
Whitespace == { " ", "\t", "\n" }

\* char::is_alphabetic
Alphabetic == Range(Upper) \cup Range(Lower)

\* char::to_uppercase, one character
UpperChar(c) ==
    IF c \in Range(Lower)
    THEN Upper[CHOOSE i \in DOMAIN Lower : Lower[i] = c]
    ELSE c

\* str::to_uppercase
to_uppercase(s) == [ i \in DOMAIN s |-> UpperChar(s[i]) ]

\* ----------------------------------------------------------------- tokens

Number(text) == [ type |-> "Number", kw |-> "", text |-> text ]
String(text) == [ type |-> "String", kw |-> "", text |-> text ]
Ident(text) == [ type |-> "Ident", kw |-> "", text |-> text ]
Keyword(k) == [ type |-> "Keyword", kw |-> k, text |-> << >> ]
Symbol(type) == [ type |-> type, kw |-> "", text |-> << >> ]

Keywords ==
    { "And", "Create", "Drop", "Table", "Bool", "Boolean", "Char", "Double",
      "Float", "Int", "Integer", "String", "Text", "Varchar", "Primary", "Key",
      "Null", "Not", "Default", "Unique", "Index", "References" }

\* Option<T>
None == [ some |-> FALSE ]
Some(v) == [ some |-> TRUE, val |-> v ]

\* EasyDbResult<T>
Ok(v) == [ ok |-> TRUE, val |-> v ]
Err(e) == [ ok |-> FALSE, err |-> e ]

\* EasyDbError
Parse(msg) == [ kind |-> "Parse", msg |-> msg ]
Value(msg) == [ kind |-> "Value", msg |-> msg ]
Internal(msg) == [ kind |-> "Internal", msg |-> msg ]

\* the canonical spelling of the keywords Keyword::to_str has no arm for
CanonicalSpelling(k) ==
    CASE k = "Create" -> << "C", "R", "E", "A", "T", "E" >>
      [] k = "Drop" -> << "D", "R", "O", "P" >>
      [] k = "Table" -> << "T", "A", "B", "L", "E" >>
      [] k = "Bool" -> << "B", "O", "O", "L" >>
      [] k = "Boolean" -> << "B", "O", "O", "L", "E", "A", "N" >>
      [] k = "Char" -> << "C", "H", "A", "R" >>
      [] k = "Double" -> << "D", "O", "U", "B", "L", "E" >>
      [] k = "Float" -> << "F", "L", "O", "A", "T" >>
      [] k = "Int" -> << "I", "N", "T" >>
      [] k = "Integer" -> << "I", "N", "T", "E", "G", "E", "R" >>
      [] k = "String" -> << "S", "T", "R", "I", "N", "G" >>
      [] k = "Text" -> << "T", "E", "X", "T" >>
      [] k = "Varchar" -> << "V", "A", "R", "C", "H", "A", "R" >>
      [] k = "Primary" -> << "P", "R", "I", "M", "A", "R", "Y" >>
      [] k = "Key" -> << "K", "E", "Y" >>
      [] k = "Null" -> << "N", "U", "L", "L" >>
      [] k = "Not" -> << "N", "O", "T" >>
      [] k = "Default" -> << "D", "E", "F", "A", "U", "L", "T" >>
      [] k = "Unique" -> << "U", "N", "I", "Q", "U", "E" >>
      [] k = "Index" -> << "I", "N", "D", "E", "X" >>
      [] k = "References" -> << "R", "E", "F", "E", "R", "E", "N", "C", "E", "S" >>

\* Keyword::from_str
from_str(ident) ==
    IF to_uppercase(ident) = << "A", "N", "D" >> THEN Some("And") ELSE None

\* Keyword::to_str
to_str(k) ==
    IF k = "And" THEN << "A", "N", "D" >> ELSE CanonicalSpelling(k)

\* impl Display for Token: the fragments written
Display(token) ==
    CASE token.type = "Number" -> token.text
      [] token.type = "String" -> token.text
      [] token.type = "Ident" -> token.text
      [] token.type = "Keyword" -> to_str(token.kw)
      [] token.type = "Period" -> << "." >>
      [] token.type = "Equal" -> << "=" >>
      [] token.type = "GreaterThan" -> << ">" >>
      [] token.type = "GreaterThanOrEqual" -> << ">", "=" >>
      [] token.type = "LessThan" -> << "<" >>
      [] token.type = "LessThanOrEqual" -> << "<", "=" >>
      [] token.type = "LessOrGreaterThan" -> << "<", ">" >>
      [] token.type = "Plus" -> << "+" >>
      [] token.type = "Minus" -> << "-" >>
      [] token.type = "Asterisk" -> << "*" >>
      [] token.type = "Slash" -> << "/" >>
      [] token.type = "Caret" -> << "^" >>
      [] token.type = "Percent" -> << "%" >>
      [] token.type = "Exclamation" -> << "!" >>
      [] token.type = "NotEqual" -> << "!", "=" >>
      [] token.type = "Question" -> << "?" >>
      [] token.type = "OpenParen" -> << "(" >>
      [] token.type = "CloseParen" -> << ")" >>
      [] token.type = "Comma" -> << "," >>
      [] token.type = "Semicolon" -> << ";" >>

\* ------------------------------------------------------------------ Lexer
\* The Lexer's state is iter, the characters not yet consumed.  An operation
\* returns its value with the iter it leaves.

\* Lexer::next_if, the predicate given as the set of characters it accepts
Lexer_next_if(iter, accept) ==
    IF iter # << >> /\ Head(iter) \in accept
    THEN [ val |-> Some(Head(iter)), iter |-> Tail(iter) ]
    ELSE [ val |-> None, iter |-> iter ]

RECURSIVE CollectWhile(_, _, _)
\* the loop of Lexer::next_while: push while next_if yields a character
CollectWhile(iter, accept, value) ==
    LET r == Lexer_next_if(iter, accept)
    IN  IF r.val.some
        THEN CollectWhile(r.iter, accept, Append(value, r.val.val))
        ELSE [ val |-> value, iter |-> r.iter ]

\* Lexer::next_while
next_while(iter, accept) ==
    LET r == CollectWhile(iter, accept, << >>)
    IN  [ val |-> IF r.val # << >> THEN Some(r.val) ELSE None, iter |-> r.iter ]

\* Lexer::skip_whitespace
skip_whitespace(iter) == next_while(iter, Whitespace).iter

\* Lexer::scan_number: the optional '.' and the digits after it
ScanFraction(st) ==
    LET sep == Lexer_next_if(st.iter, { "." })
    IN  IF sep.val.some
        THEN CollectWhile(sep.iter, Digits, Append(st.val, sep.val.val))
        ELSE st

\* Lexer::scan_number without its next_if for the sign: only digits may follow
\* the exponent mark
ScanSign_unsigned(st) == CollectWhile(st.iter, Digits, st.val)

\* Lexer::scan_number: the optional sign and the digits after the exponent mark
ScanSign(st) ==
    LET sign == Lexer_next_if(st.iter, { "+", "-" })
    IN  IF sign.val.some
        THEN CollectWhile(sign.iter, Digits, Append(st.val, sign.val.val))
        ELSE CollectWhile(st.iter, Digits, st.val)

\* Lexer::scan_number: the optional exponent
ScanExponent(st) ==
    LET exp == Lexer_next_if(st.iter, { "e", "E" })
    IN  IF exp.val.some
        THEN ScanSign([ val |-> Append(st.val, exp.val.val), iter |-> exp.iter ])
        ELSE st

\* Lexer::scan_number: Some(Token::Number(num))
NumberToken(st) == [ val |-> Some(Number(st.val)), iter |-> st.iter ]

\* Lexer::scan_number: what follows let mut num = self.next_while(..)?
ScanNumberFrom(digits) ==
    IF ~digits.val.some
    THEN digits
    ELSE NumberToken(ScanExponent(ScanFraction(
             [ val |-> digits.val.val, iter |-> digits.iter ])))

\* Lexer::scan_number
scan_number(iter) == ScanNumberFrom(next_while(iter, Digits))

\* the tokenizer closure of Lexer::scan_symbol
SymbolOf(c) ==
    CASE c = "." -> Some(Symbol("Period"))
      [] c = "=" -> Some(Symbol("Equal"))
      [] c = ">" -> Some(Symbol("GreaterThan"))
      [] c = "<" -> Some(Symbol("LessThan"))
      [] c = "+" -> Some(Symbol("Plus"))
      [] c = "-" -> Some(Symbol("Minus"))
      [] c = "*" -> Some(Symbol("Asterisk"))
      [] c = "/" -> Some(Symbol("Slash"))
      [] c = "^" -> Some(Symbol("Caret"))
      [] c = "%" -> Some(Symbol("Percent"))
      [] c = "!" -> Some(Symbol("Exclamation"))
      [] c = "?" -> Some(Symbol("Question"))
      [] c = "(" -> Some(Symbol("OpenParen"))
      [] c = ")" -> Some(Symbol("CloseParen"))
      [] c = "," -> Some(Symbol("Comma"))
      [] c = ";" -> Some(Symbol("Semicolon"))
      [] OTHER -> None

\* Lexer::next_if_token with self.iter.next() moved before the `?`: the
\* character is consumed whether or not it makes a token
Lexer_next_if_token_always_advance(iter) ==
    IF iter # << >>
    THEN [ val |-> SymbolOf(Head(iter)), iter |-> Tail(iter) ]
    ELSE [ val |-> None, iter |-> iter ]

\* Lexer::next_if_token, with the tokenizer of scan_symbol, its one caller
Lexer_next_if_token(iter) ==
    IF iter # << >> /\ SymbolOf(Head(iter)).some
    THEN [ val |-> SymbolOf(Head(iter)), iter |-> Tail(iter) ]
    ELSE [ val |-> None, iter |-> iter ]

\* the second character of a symbol: the token two when the next character is
\* c, and otherwise what orelse gives
Combine(r, c, two, orelse) ==
    IF Lexer_next_if(r.iter, { c }).val.some
    THEN [ val |-> Some(Symbol(two)), iter |-> Lexer_next_if(r.iter, { c }).iter ]
    ELSE orelse

\* the .map(|token| match token ..) of Lexer::scan_symbol
Greedy(r) ==
    IF ~r.val.some
    THEN r
    ELSE CASE r.val.val.type = "Exclamation" -> Combine(r, "=", "NotEqual", r)
           [] r.val.val.type = "LessThan" ->
                Combine(r, ">", "LessOrGreaterThan",
                        Combine(r, "=", "LessThanOrEqual", r))
           [] r.val.val.type = "GreaterThan" ->
                Combine(r, "=", "GreaterThanOrEqual", r)
           [] OTHER -> r

\* Lexer::scan_symbol without its .map(..): one character, one token
scan_symbol_single(iter) == Lexer_next_if_token(iter)

\* Lexer::scan_symbol
scan_symbol(iter) == Greedy(Lexer_next_if_token(iter))

\* Ok(..) around the token a scan returns
OkToken(r) == [ val |-> Ok(r.val), iter |-> r.iter ]

\* the match of Lexer::scan on self.iter.peek()
ScanPeeked(it) ==
    IF it = << >> THEN [ val |-> Ok(None), iter |-> it ]
    ELSE IF Head(it) \in Digits THEN OkToken(scan_number(it))
    ELSE OkToken(scan_symbol(it))

\* Lexer::scan
scan(iter) == ScanPeeked(skip_whitespace(iter))

\* the match of <Lexer as Iterator>::next on what scan returned
NextOf(r) ==
    IF ~r.val.ok
    THEN [ val |-> Some(Err(r.val.err)), iter |-> r.iter ]
    ELSE IF r.val.val.some
    THEN [ val |-> Some(Ok(r.val.val.val)), iter |-> r.iter ]
    ELSE IF r.iter # << >>
    THEN [ val |-> Some(Err(Parse(<< "Unexpected character ", Head(r.iter) >>))),
           iter |-> r.iter ]
    ELSE [ val |-> None, iter |-> r.iter ]

\* <Lexer as Iterator>::next: val is None, Some(Ok(token)) or Some(Err(error))
Lexer_next(iter) == NextOf(scan(iter))

\* ----------------------------------------------------------------- inputs

\* the characters of the texts enumerated exhaustively
TextAlphabet == { "1", ".", "e", "-", " ", "@", "<", "=", "a", "'", ";" }

ShortTexts == UNION { [ 1..n -> TextAlphabet ] : n \in 0..MaxTextLen }

SP == << " " >>
W_CREATE == << "C", "R", "E", "A", "T", "E" >>
W_DROP == << "D", "R", "O", "P" >>
W_TABLE == << "T", "A", "B", "L", "E" >>
W_INT == << "I", "N", "T" >>
W_STRING == << "S", "T", "R", "I", "N", "G" >>
W_NOT == << "N", "O", "T" >>
W_NULL == << "N", "U", "L", "L" >>
W_AND == << "a", "n", "d" >>

\* CREATE TABLE t (a INT)
T_Create1 ==
    W_CREATE \o SP \o W_TABLE \o SP \o << "t", " ", "(", "a", " " >> \o W_INT \o << ")" >>

\* CREATE TABLE t (a INT, b STRING);
T_Create2 ==
    W_CREATE \o SP \o W_TABLE \o SP \o << "t", " ", "(", "a", " " >> \o W_INT
      \o << ",", " ", "b", " " >> \o W_STRING \o << ")", ";" >>

\* CREATE TABLE t ()
T_CreateEmpty == W_CREATE \o SP \o W_TABLE \o SP \o << "t", " ", "(", ")" >>

\* CREATE TABLE t (a INT
T_CreateOpen ==
    W_CREATE \o SP \o W_TABLE \o SP \o << "t", " ", "(", "a", " " >> \o W_INT

\* CREATE TABLE
T_CreateTable == W_CREATE \o SP \o W_TABLE

\* CREATE TABLE t (a INT NOT NULL NULL)
T_NotNullNull ==
    T_CreateOpen \o SP \o W_NOT \o SP \o W_NULL \o SP \o W_NULL \o << ")" >>

\* CREATE TABLE t (a INT NULL NOT NULL)
T_NullNotNull ==
    T_CreateOpen \o SP \o W_NULL \o SP \o W_NOT \o SP \o W_NULL \o << ")" >>

\* DROP TABLE t
T_Drop == W_DROP \o SP \o W_TABLE \o SP \o << "t" >>

\* DROP TABLE a;
T_DropSemi == W_DROP \o SP \o W_TABLE \o SP \o << "a", ";" >>

\* CREATE TABLE t (a STRING 'x
T_OpenQuote ==
    W_CREATE \o SP \o W_TABLE \o SP \o << "t", " ", "(", "a", " " >> \o W_STRING
      \o << " ", "'", "x" >>

SampleTexts ==
    { T_Create1, T_Create2, T_CreateEmpty, T_CreateOpen, T_CreateTable,
      T_NotNullNull, T_NullNotNull, T_Drop, T_DropSemi, W_DROP, T_OpenQuote,
      W_AND, << "1", ".", "5", "e", "-", "3" >>, << "1", " ", "t", " ", ";" >> }

W_DEFAULT == << "D", "E", "F", "A", "U", "L", "T" >>
W_PRIMARY == << "P", "R", "I", "M", "A", "R", "Y" >>
W_KEY == << "K", "E", "Y" >>
W_UNIQUE == << "U", "N", "I", "Q", "U", "E" >>

\* CREATE TABLE t (a INT DEFAULT 1)
T_Default == T_CreateOpen \o SP \o W_DEFAULT \o << " ", "1", ")" >>

\* CREATE TABLE t (a INT PRIMARY KEY UNIQUE)
T_PrimaryUnique ==
    T_CreateOpen \o SP \o W_PRIMARY \o SP \o W_KEY \o SP \o W_UNIQUE \o << ")" >>

\* CREATE TABLE t (a INT UNIQUE PRIMARY KEY)
T_UniquePrimary ==
    T_CreateOpen \o SP \o W_UNIQUE \o SP \o W_PRIMARY \o SP \o W_KEY \o << ")" >>

\* CREATE TABLE t (a INT KEY)
T_Key == T_CreateOpen \o SP \o W_KEY \o << ")" >>

\* CREATE TABLE t (a INT NULL NULL)
T_NullNull == T_CreateOpen \o SP \o W_NULL \o SP \o W_NULL \o << ")" >>

\* texts with column constraints
ConstraintTexts == { T_Default, T_PrimaryUnique, T_UniquePrimary, T_Key, T_NullNull }

\* the characters of the comparison symbols, with a digit and a blank
SymbolAlphabet == { "!", "<", ">", "=", "1", " " }

SymbolTexts == UNION { [ 1..n -> SymbolAlphabet ] : n \in 1..MaxTextLen }

Texts == ShortTexts \cup SampleTexts \cup SymbolTexts \cup ConstraintTexts

\* the tokens a token stream yields
TokenAlphabet ==
    { Keyword(k) : k \in Keywords }
      \cup { Ident(<< "t" >>), Ident(<< "a" >>), Number(<< "1" >>) }
      \cup { Symbol(s) : s \in { "OpenParen", "CloseParen", "Comma", "Semicolon", "Period" } }

\* the lexical error a token stream yields
StreamError == Parse(<< "Unexpected character ", "@" >>)

\* ------------------------------------------------------------------ state

VARIABLES
    input,      \* the text given to Lexer::new, << >> for a token stream
    lexer,      \* Parser::lexer: the Peekable buffer, the iterator under it,
                \* and drawn, the items the iterator has yielded to the parser
    item,       \* the last item a bare Lexer yielded, None before the first draw
    pc,         \* the place in the parser's code; "new" before Lexer::new or
                \* Parser::new, "lex" for a Lexer drawn from without a Parser
    name,       \* parse_ddl_create_table: name
    columns,    \* parse_ddl_create_table: columns
    column,     \* parse_ddl_column: column
    statement,  \* parse: statement
    result,     \* what parse returned, None until it returns
    twin        \* a second Lexer over the same text: its iter and the last item
                \* it yielded; and result, what the first of two parses of the
                \* text returned

vars == << input, lexer, item, pc, name, columns, column, statement, result, twin >>

\* Lexer::new(text) once more; no parse of the text has returned yet
NewTwin(text) == [ iter |-> text, item |-> None, result |-> None ]

\* Lexer::new(text), with an empty Peekable buffer over it
NewLexer(text) ==
    [ kind |-> "Lexer", iter |-> text, peeked |-> None,
      left |-> 0, stuck |-> None, drawn |-> << >> ]

\* a stream of at most MaxTokens tokens, ended by end of input or by an error
NewTokens ==
    [ kind |-> "Tokens", iter |-> << >>, peeked |-> None,
      left |-> MaxTokens, stuck |-> None, drawn |-> << >> ]

\* the draw of r from the Lexer under the Peekable
LexerYield(lx, r) ==
    [ val |-> r.val, lx |-> [ lx EXCEPT !.iter = r.iter, !.drawn = Append(@, r.val) ] ]

\* what the next draw from the iterator under the Peekable can yield: the item
\* and the iterator after it
Yield(lx) ==
    IF lx.kind = "Lexer"
    THEN { LexerYield(lx, Lexer_next(lx.iter)) }
    ELSE IF lx.stuck.some
    THEN { [ val |-> lx.stuck.val, lx |-> [ lx EXCEPT !.drawn = Append(@, lx.stuck.val) ] ] }
    ELSE { [ val |-> v,
             lx |-> [ lx EXCEPT !.stuck = Some(v), !.drawn = Append(@, v) ] ]
           : v \in { None, Some(Err(StreamError)) } }
         \cup
         { [ val |-> Some(Ok(t)),
             lx |-> [ lx EXCEPT !.left = @ - 1, !.drawn = Append(@, Some(Ok(t))) ] ]
           : t \in IF lx.left > 0 THEN TokenAlphabet ELSE { } }

\* Peekable::peek that hands the item over without keeping it buffered
Peekable_peek_consuming(lx, y) ==
    IF lx.peeked.some
    THEN [ val |-> lx.peeked.val, lx |-> [ lx EXCEPT !.peeked = None ] ]
    ELSE [ val |-> y.val, lx |-> y.lx ]

\* Peekable::peek
Peekable_peek(lx, y) ==
    IF lx.peeked.some
    THEN [ val |-> lx.peeked.val, lx |-> lx ]
    ELSE [ val |-> y.val, lx |-> [ y.lx EXCEPT !.peeked = Some(y.val) ] ]

\* Peekable::next
Peekable_next(lx, y) ==
    IF lx.peeked.some
    THEN [ val |-> lx.peeked.val, lx |-> [ lx EXCEPT !.peeked = None ] ]
    ELSE [ val |-> y.val, lx |-> y.lx ]

\* ----------------------------------------------------------------- Parser
\* An operation takes the lexer and y, the yield of the iterator should the
\* operation draw from it, and returns its value with the lexer it leaves.

\* the unwrap_or_else of Parser::next
OrEndOfInput(r) ==
    [ val |-> IF r.val.some THEN r.val.val
              ELSE Err(Parse(<< "Unexpected end of input" >>)),
      lx |-> r.lx ]

\* Parser::next
Parser_next(lx, y) == OrEndOfInput(Peekable_next(lx, y))

\* the .cloned().transpose() of Parser::peek
Transpose(r) ==
    [ val |-> IF ~r.val.some THEN Ok(None)
              ELSE IF r.val.val.ok THEN Ok(Some(r.val.val.val))
              ELSE Err(r.val.val.err),
      lx |-> r.lx ]

\* Parser::peek
Parser_peek(lx, y) == Transpose(Peekable_peek(lx, y))

\* the .ok() of Parser::next_if
OkOf(n) == [ val |-> IF n.val.ok THEN Some(n.val.val) ELSE None, lx |-> n.lx ]

\* Parser::next_if without its self.next(): the token is returned and stays
\* buffered
NextIfPeeked_no_next(p, y, accept) ==
    IF p.val.ok /\ p.val.val.some /\ p.val.val.val \in accept
    THEN [ val |-> p.val.val, lx |-> p.lx ]
    ELSE [ val |-> None, lx |-> p.lx ]

\* Parser::next_if that takes a peeked lexer error out of the buffer and drops it
NextIfPeeked_skip_error(p, y, accept) ==
    IF p.val.ok /\ p.val.val.some /\ p.val.val.val \in accept
    THEN OkOf(Parser_next(p.lx, y))
    ELSE IF ~p.val.ok
    THEN [ val |-> None, lx |-> [ p.lx EXCEPT !.peeked = None ] ]
    ELSE [ val |-> None, lx |-> p.lx ]

\* Parser::next_if after its peek p, the predicate given as the set of tokens it
\* accepts; the token is buffered, and next takes it without a draw
NextIfPeeked(p, y, accept) ==
    IF p.val.ok /\ p.val.val.some /\ p.val.val.val \in accept
    THEN OkOf(Parser_next(p.lx, y))
    ELSE [ val |-> None, lx |-> p.lx ]

\* Parser::next_if
Parser_next_if(lx, y, accept) == NextIfPeeked(Parser_peek(lx, y), y, accept)

\* Parser::next_if_token
Parser_next_if_token(lx, y, token) == Parser_next_if(lx, y, { token })

\* Parser::next_if_keyword
next_if_keyword(lx, y) == Parser_next_if(lx, y, { Keyword(k) : k \in Keywords })

\* Parser::next_expect, Some(t): what follows let token = self.next()?
Expected(n, t) ==
    [ val |-> IF ~n.val.ok THEN n.val
              ELSE IF n.val.val = t THEN Ok(Some(n.val.val))
              ELSE Err(Parse(<< "Expected token " >> \o Display(t)
                               \o << ", found " >> \o Display(n.val.val))),
      lx |-> n.lx ]

\* Parser::next_expect, None, with the Some(token) arm lost: whatever is left
\* of the input is accepted
ExpectedEnd_accept_rest(p) ==
    [ val |-> IF ~p.val.ok THEN p.val ELSE Ok(None), lx |-> p.lx ]

\* Parser::next_expect, None: what follows self.peek()?
ExpectedEnd(p) ==
    [ val |-> IF ~p.val.ok THEN p.val
              ELSE IF p.val.val.some
              THEN Err(Parse(<< "Unexpected token " >> \o Display(p.val.val.val)))
              ELSE Ok(None),
      lx |-> p.lx ]

\* Parser::next_expect
next_expect(lx, y, expect) ==
    IF expect.some
    THEN Expected(Parser_next(lx, y), expect.val)
    ELSE ExpectedEnd(Parser_peek(lx, y))

\* the match of Parser::next_ident
IdentOf(n) ==
    [ val |-> IF ~n.val.ok THEN n.val
              ELSE IF n.val.val.type = "Ident" THEN Ok(n.val.val.text)
              ELSE Err(Parse(<< "Expected identifier, got " >> \o Display(n.val.val))),
      lx |-> n.lx ]

\* Parser::next_ident
next_ident(lx, y) == IdentOf(Parser_next(lx, y))

\* Statement
CreateTable(n, cols) == [ type |-> "CreateTable", name |-> n, columns |-> cols ]
DropTable(n) == [ type |-> "DropTable", name |-> n, columns |-> << >> ]

\* Ok(Statement::DropTable(..)) around the identifier
DropTableOf(n) ==
    [ val |-> IF n.val.ok THEN Ok(DropTable(n.val.val)) ELSE n.val, lx |-> n.lx ]

\* Parser::parse_ddl_drop_table
parse_ddl_drop_table(lx, y) == DropTableOf(next_ident(lx, y))

\* the column type keywords of Parser::parse_ddl_column
DataTypeOf(token) ==
    CASE token.kw \in { "Bool", "Boolean" } -> Some("Boolean")
      [] token.kw \in { "Char", "String", "Text", "Varchar" } -> Some("String")
      [] token.kw \in { "Double", "Float" } -> Some("Float")
      [] token.kw \in { "Int", "Integer" } -> Some("Integer")
      [] OTHER -> None

\* the Column literal of Parser::parse_ddl_column
NewColumn(n, datatype) ==
    [ name |-> n, datatype |-> datatype, primary_key |-> FALSE, nullable |-> None,
      unique |-> FALSE, index |-> FALSE, references |-> None ]

\* ---------------------------------------------------------------- actions

Init ==
    /\ input = << >>
    /\ lexer = NewLexer(<< >>)
    /\ pc = "new"
    /\ item = None
    /\ name = << >>
    /\ columns = << >>
    /\ column = None
    /\ statement = None
    /\ result = None
    /\ twin = NewTwin(<< >>)

\* Lexer::new(input) for a consumer that draws from the Lexer itself
NewLexerOnly ==
    /\ pc = "new"
    /\ \E text \in Texts :
         /\ input' = text
         /\ lexer' = NewLexer(text)
         /\ twin' = NewTwin(text)
    /\ pc' = "lex"
    /\ UNCHANGED << item, name, columns, column, statement, result >>

\* Parser::new(query), and the call of parse
NewParser ==
    /\ pc = "new"
    /\ \E text \in Texts :
         /\ input' = text
         /\ lexer' = NewLexer(text)
         /\ twin' = NewTwin(text)
    /\ pc' = "parse_statement"
    /\ UNCHANGED << item, name, columns, column, statement, result >>

\* a Parser over a stream of tokens, and the call of parse
NewParserOfTokens ==
    /\ pc = "new"
    /\ lexer' = NewTokens
    /\ pc' = "parse_statement"
    /\ UNCHANGED << input, twin, item, name, columns, column, statement, result >>

\* the parser moves on to place l
Goto(lx, l) ==
    /\ lexer' = lx
    /\ pc' = l
    /\ UNCHANGED << input, twin, item, name, columns, column, statement, result >>

\* an error propagates out of parse
Fail(lx, e) ==
    /\ lexer' = lx
    /\ pc' = "done"
    /\ result' = Some(Err(e))
    /\ UNCHANGED << input, twin, item, name, columns, column, statement >>

\* the draw of r from the second Lexer
TwinYield(r) == [ twin EXCEPT !.iter = r.iter, !.item = Some(r.val) ]

\* LexerDraw with the two Lexers sharing one character iterator: the second
\* draws from what the first has left
LexerDraw_shared_iter ==
    /\ pc = "lex"
    /\ \E r \in { Lexer_next(lexer.iter) } :
         /\ item' = Some(r.val)
         /\ twin' = TwinYield(Lexer_next(r.iter))
         /\ lexer' = [ lexer EXCEPT !.iter = twin'.iter ]
    /\ UNCHANGED << input, pc, name, columns, column, statement, result >>

\* a consumer draws the next item from each of two Lexers over the same text
LexerDraw ==
    /\ pc = "lex"
    /\ \E r \in { Lexer_next(lexer.iter) } :
         /\ item' = Some(r.val)
         /\ lexer' = [ lexer EXCEPT !.iter = r.iter ]
    /\ twin' = TwinYield(Lexer_next(twin.iter))
    /\ UNCHANGED << input, pc, name, columns, column, statement, result >>

\* Parser::parse_statement
ParseStatement ==
    /\ pc = "parse_statement"
    /\ \E y \in Yield(lexer) :
         \E p \in { Parser_peek(lexer, y) } :
           IF ~p.val.ok THEN Fail(p.lx, p.val.err)
           ELSE IF ~p.val.val.some
           THEN Fail(p.lx, Parse(<< "Unexpected end of input" >>))
           ELSE IF p.val.val.val = Keyword("Create") THEN Goto(p.lx, "parse_ddl")
           ELSE Fail(p.lx, Parse(<< "Unexpected token " >> \o Display(p.val.val.val)))

\* parse returns to its caller what parse_statement returned
Return(lx, stmt) ==
    /\ lexer' = lx
    /\ pc' = "parse_semicolon"
    /\ statement' = Some(stmt)
    /\ UNCHANGED << input, twin, item, name, columns, column, result >>

\* Parser::parse_ddl: the first token, and the DROP arm to its end
ParseDdl ==
    /\ pc = "parse_ddl"
    /\ \E y1 \in Yield(lexer) :
         \E n1 \in { Parser_next(lexer, y1) } :
           IF ~n1.val.ok THEN Fail(n1.lx, n1.val.err)
           ELSE IF n1.val.val = Keyword("Create") THEN Goto(n1.lx, "parse_ddl_create")
           ELSE IF n1.val.val = Keyword("Drop")
           THEN \E y2 \in Yield(n1.lx) :
                  \E n2 \in { Parser_next(n1.lx, y2) } :
                    IF ~n2.val.ok THEN Fail(n2.lx, n2.val.err)
                    ELSE IF n2.val.val = Keyword("Table")
                    THEN \E y3 \in Yield(n2.lx) :
                           \E d \in { parse_ddl_drop_table(n2.lx, y3) } :
                             IF d.val.ok THEN Return(d.lx, d.val.val)
                             ELSE Fail(d.lx, d.val.err)
                    ELSE Fail(n2.lx, Parse(<< "Unexpected token " >>
                                             \o Display(n2.val.val)))
           ELSE Fail(n1.lx, Parse(<< "Unexpected token " >> \o Display(n1.val.val)))

\* Parser::parse_ddl: the token after CREATE
ParseDdlCreate ==
    /\ pc = "parse_ddl_create"
    /\ \E y \in Yield(lexer) :
         \E n \in { Parser_next(lexer, y) } :
           IF ~n.val.ok THEN Fail(n.lx, n.val.err)
           ELSE IF n.val.val = Keyword("Table") THEN Goto(n.lx, "create_table_name")
           ELSE Fail(n.lx, Parse(<< "Unexpected token " >> \o Display(n.val.val)))

\* Parser::parse_ddl_create_table: let name = self.next_ident()?
CreateTableName ==
    /\ pc = "create_table_name"
    /\ \E y \in Yield(lexer) :
         \E n \in { next_ident(lexer, y) } :
           IF ~n.val.ok THEN Fail(n.lx, n.val.err)
           ELSE /\ lexer' = n.lx
                /\ pc' = "create_table_open"
                /\ name' = n.val.val
                /\ UNCHANGED << input, twin, item, columns, column, statement, result >>

\* Parser::parse_ddl_create_table with the column loop turned into a loop that
\* tests for the separator before it parses a column
CreateTableOpen_test_first ==
    /\ pc = "create_table_open"
    /\ \E y \in Yield(lexer) :
         \E n \in { next_expect(lexer, y, Some(Symbol("OpenParen"))) } :
           IF ~n.val.ok THEN Fail(n.lx, n.val.err)
           ELSE /\ lexer' = n.lx
                /\ pc' = "create_table_comma"
                /\ columns' = << >>
                /\ UNCHANGED << input, twin, item, name, column, statement, result >>

\* Parser::parse_ddl_create_table: self.next_expect(Some(Token::OpenParen))?
CreateTableOpen ==
    /\ pc = "create_table_open"
    /\ \E y \in Yield(lexer) :
         \E n \in { next_expect(lexer, y, Some(Symbol("OpenParen"))) } :
           IF ~n.val.ok THEN Fail(n.lx, n.val.err)
           ELSE /\ lexer' = n.lx
                /\ pc' = "column_name"
                /\ columns' = << >>
                /\ UNCHANGED << input, twin, item, name, column, statement, result >>

\* Parser::parse_ddl_column: name: self.next_ident()?
ColumnName ==
    /\ pc = "column_name"
    /\ \E y \in Yield(lexer) :
         \E n \in { next_ident(lexer, y) } :
           IF ~n.val.ok THEN Fail(n.lx, n.val.err)
           ELSE /\ lexer' = n.lx
                /\ pc' = "column_type"
                /\ column' = Some(NewColumn(n.val.val, ""))
                /\ UNCHANGED << input, twin, item, name, columns, statement, result >>

\* Parser::parse_ddl_column: datatype: match self.next()?
ColumnType ==
    /\ pc = "column_type"
    /\ \E y \in Yield(lexer) :
         \E n \in { Parser_next(lexer, y) } :
           IF ~n.val.ok THEN Fail(n.lx, n.val.err)
           ELSE IF DataTypeOf(n.val.val).some
           THEN /\ lexer' = n.lx
                /\ pc' = "column_constraint"
                /\ column' = Some(NewColumn(column.val.name, DataTypeOf(n.val.val).val))
                /\ UNCHANGED << input, twin, item, name, columns, statement, result >>
           ELSE Fail(n.lx, Parse(<< "Unexpected token " >> \o Display(n.val.val)))

\* the column of parse_ddl_column becomes col, and the constraint loop goes on
SetColumn(lx, col) ==
    /\ lexer' = lx
    /\ pc' = "column_constraint"
    /\ column' = Some(col)
    /\ UNCHANGED << input, twin, item, name, columns, statement, result >>

\* the Value error of the NULL and NOT arms
Conflict(col) ==
    Value(<< "Column " >> \o col.name \o << " can't be both not nullable and nullable" >>)

\* the Keyword::Null arm of Parser::parse_ddl_column
NullArm(lx, col) ==
    IF col.nullable = Some(FALSE)
    THEN Fail(lx, Conflict(col))
    ELSE SetColumn(lx, [ col EXCEPT !.nullable = Some(TRUE) ])

\* Parser::parse_ddl_column with an arm for Keyword::Default that does nothing
ColumnConstraint_default_ignored ==
    /\ pc = "column_constraint"
    /\ \E y \in Yield(lexer) :
         \E k \in { next_if_keyword(lexer, y) } :
           IF ~k.val.some
           THEN /\ lexer' = k.lx
                /\ pc' = "create_table_comma"
                /\ columns' = Append(columns, column.val)
                /\ UNCHANGED << input, twin, item, name, column, statement, result >>
           ELSE CASE k.val.val.kw = "Primary" -> Goto(k.lx, "primary_key")
                  [] k.val.val.kw = "Null" -> NullArm(k.lx, column.val)
                  [] k.val.val.kw = "Default" -> SetColumn(k.lx, column.val)
                  [] k.val.val.kw = "Unique" ->
                       SetColumn(k.lx, [ column.val EXCEPT !.unique = TRUE ])
                  [] k.val.val.kw = "Index" ->
                       SetColumn(k.lx, [ column.val EXCEPT !.index = TRUE ])
                  [] k.val.val.kw = "References" -> Goto(k.lx, "references")
                  [] k.val.val.kw = "Not" -> Goto(k.lx, "not_null")
                  [] OTHER ->
                       Fail(k.lx, Parse(<< "Unexpected keyword " >> \o to_str(k.val.val.kw)))

\* Parser::parse_ddl_column: one turn of while let Some(Token::Keyword(keyword)),
\* up to the token that must follow PRIMARY, NOT or REFERENCES
ColumnConstraint ==
    /\ pc = "column_constraint"
    /\ \E y \in Yield(lexer) :
         \E k \in { next_if_keyword(lexer, y) } :
           IF ~k.val.some
           THEN \* Ok(column), pushed by parse_ddl_create_table
                /\ lexer' = k.lx
                /\ pc' = "create_table_comma"
                /\ columns' = Append(columns, column.val)
                /\ UNCHANGED << input, twin, item, name, column, statement, result >>
           ELSE CASE k.val.val.kw = "Primary" -> Goto(k.lx, "primary_key")
                  [] k.val.val.kw = "Null" -> NullArm(k.lx, column.val)
                  [] k.val.val.kw = "Unique" ->
                       SetColumn(k.lx, [ column.val EXCEPT !.unique = TRUE ])
                  [] k.val.val.kw = "Index" ->
                       SetColumn(k.lx, [ column.val EXCEPT !.index = TRUE ])
                  [] k.val.val.kw = "References" -> Goto(k.lx, "references")
                  [] k.val.val.kw = "Not" -> Goto(k.lx, "not_null")
                  [] OTHER ->
                       Fail(k.lx, Parse(<< "Unexpected keyword " >> \o to_str(k.val.val.kw)))

\* Keyword::Primary: self.next_expect(Some(Keyword::Key.into()))?
PrimaryKey ==
    /\ pc = "primary_key"
    /\ \E y \in Yield(lexer) :
         \E n \in { next_expect(lexer, y, Some(Keyword("Key"))) } :
           IF ~n.val.ok THEN Fail(n.lx, n.val.err)
           ELSE SetColumn(n.lx, [ column.val EXCEPT !.primary_key = TRUE ])

\* Keyword::References: column.references = Some(self.next_ident()?)
References ==
    /\ pc = "references"
    /\ \E y \in Yield(lexer) :
         \E n \in { next_ident(lexer, y) } :
           IF ~n.val.ok THEN Fail(n.lx, n.val.err)
           ELSE SetColumn(n.lx, [ column.val EXCEPT !.references = Some(n.val.val) ])

\* the Keyword::Not arm of Parser::parse_ddl_column after its next_expect
NotArm(lx, col) ==
    IF col.nullable = Some(TRUE)
    THEN Fail(lx, Conflict(col))
    ELSE SetColumn(lx, [ col EXCEPT !.nullable = Some(FALSE) ])

\* Keyword::Not: self.next_expect(Some(Keyword::Null.into()))? and the check
NotNull ==
    /\ pc = "not_null"
    /\ \E y \in Yield(lexer) :
         \E n \in { next_expect(lexer, y, Some(Keyword("Null"))) } :
           IF ~n.val.ok THEN Fail(n.lx, n.val.err)
           ELSE NotArm(n.lx, column.val)

\* Parser::parse_ddl_create_table: if self.next_if_token(Token::Comma).is_none()
CreateTableComma ==
    /\ pc = "create_table_comma"
    /\ \E y \in Yield(lexer) :
         \E c \in { Parser_next_if_token(lexer, y, Symbol("Comma")) } :
           IF c.val.some THEN Goto(c.lx, "column_name")
           ELSE Goto(c.lx, "create_table_close")

\* Parser::parse_ddl_create_table: self.next_expect(Some(Token::CloseParen))?
CreateTableClose ==
    /\ pc = "create_table_close"
    /\ \E y \in Yield(lexer) :
         \E n \in { next_expect(lexer, y, Some(Symbol("CloseParen"))) } :
           IF ~n.val.ok THEN Fail(n.lx, n.val.err)
           ELSE Return(n.lx, CreateTable(name, columns))

\* Parser::parse: self.next_if_token(Token::Semicolon)
ParseSemicolon ==
    /\ pc = "parse_semicolon"
    /\ \E y \in Yield(lexer) :
         Goto(Parser_next_if_token(lexer, y, Symbol("Semicolon")).lx, "parse_end")

\* Parser::parse: self.next_expect(None)?; Ok(statement)
ParseEnd ==
    /\ pc = "parse_end"
    /\ \E y \in Yield(lexer) :
         \E n \in { next_expect(lexer, y, None) } :
           IF ~n.val.ok THEN Fail(n.lx, n.val.err)
           ELSE /\ lexer' = n.lx
                /\ pc' = "done"
                /\ result' = Some(Ok(statement.val))
                /\ UNCHANGED << input, twin, item, name, columns, column, statement >>

\* parse has returned for a text: Parser::new on the same text and parse again
ParseAgain ==
    /\ pc = "done"
    /\ lexer.kind = "Lexer"
    /\ ~twin.result.some
    /\ twin' = [ twin EXCEPT !.result = result ]
    /\ lexer' = NewLexer(input)
    /\ pc' = "parse_statement"
    /\ name' = << >>
    /\ columns' = << >>
    /\ column' = None
    /\ statement' = None
    /\ result' = None
    /\ UNCHANGED << input, item >>

\* a step of Parser::parse
ParserStep ==
    \/ ParseStatement
    \/ ParseDdl
    \/ ParseDdlCreate
    \/ CreateTableName
    \/ CreateTableOpen
    \/ ColumnName
    \/ ColumnType
    \/ ColumnConstraint
    \/ PrimaryKey
    \/ References
    \/ NotNull
    \/ CreateTableComma
    \/ CreateTableClose
    \/ ParseSemicolon
    \/ ParseEnd

Next ==
    NewLexerOnly \/ NewParser \/ NewParserOfTokens \/ LexerDraw \/ ParserStep \/ ParseAgain

Spec == Init /\ [][Next]_vars

\* ----------------------------------------------------------------- claims

\* the items the parser's lexer has yielded, and the last of them
Drawn == lexer.drawn
LastDrawn == Drawn[Len(Drawn)]

\* the result parse returned is Err of the given kind
Failed(kind) == result.some /\ ~result.val.ok /\ result.val.err.kind = kind

\* a Column with no constraint
Plain(n, datatype) == NewColumn(n, datatype)

\* C1: for a valid CREATE TABLE text, optionally followed by `;`, parse returns
\* Ok(CreateTable{name, columns}) with the table's name and one Column per
\* column definition, in source order.
C1_CreateTableParsed ==
    pc = "done" =>
      /\ input = T_Create1 =>
           result = Some(Ok(CreateTable(<< "t" >>, << Plain(<< "a" >>, "Integer") >>)))
      /\ input = T_Create2 =>
           result = Some(Ok(CreateTable(<< "t" >>, << Plain(<< "a" >>, "Integer"),
                                                      Plain(<< "b" >>, "String") >>)))

\* C2: parse on `DROP TABLE t`, with or without a trailing `;`, returns
\* Ok(DropTable(t)); a leading DROP keyword is dispatched to the DDL path and is
\* not refused by parse_statement.
C2_DropTableParsed ==
    pc = "done" =>
      /\ input = T_Drop => result = Some(Ok(DropTable(<< "t" >>)))
      /\ input = T_DropSemi => result = Some(Ok(DropTable(<< "a" >>)))
      /\ Drawn[1] = Some(Ok(Keyword("Drop"))) =>
           result # Some(Err(Parse(<< "Unexpected token " >> \o to_str("Drop"))))

\* what the lexer yielded after the `)` that ends the CREATE TABLE statement
AfterStatement ==
    LET close == CHOOSE i \in 1..Len(Drawn) :
                   /\ Drawn[i] = Some(Ok(Symbol("CloseParen")))
                   /\ \A j \in 1..(i - 1) : Drawn[j] # Some(Ok(Symbol("CloseParen")))
    IN  SubSeq(Drawn, close + 1, Len(Drawn))

\* C3: parse accepts at most one statement.  Once parse_statement has
\* succeeded, the parser draws an optional single `;` and one more item: parse
\* returns Ok(statement) exactly when that item is the end of the input, and
\* Err(Parse) when a token (a second `;` too) or a lexical error is there.
C3_AtMostOneStatement ==
    (pc = "done" /\ statement.some) =>
      /\ Len(AfterStatement) \in { 1, 2 }
      /\ Len(AfterStatement) = 2 <=> AfterStatement[1] = Some(Ok(Symbol("Semicolon")))
      /\ ~LastDrawn.some => result = Some(Ok(statement.val))
      /\ LastDrawn.some => Failed("Parse")

\* C3, witness: a token is left after the statement and its `;`
C3_Witness ==
    /\ pc = "done"
    /\ statement.some
    /\ Len(AfterStatement) = 2
    /\ LastDrawn.some /\ LastDrawn.val.ok
    /\ result = Some(Err(Parse(<< "Unexpected token " >> \o Display(LastDrawn.val.val))))

\* C4: a NULL constraint after NOT NULL, or NOT NULL after NULL, in one column
\* makes parse fail with a Value error, in both orders.
C4_NullConflictIsValueError ==
    (pc = "done" /\ input \in { T_NotNullNull, T_NullNotNull }) => Failed("Value")

\* the input opens the column list and closes it at once: CREATE TABLE t ()
EmptyColumnList ==
    \/ input = T_CreateEmpty
    \/ /\ Len(Drawn) >= 5
       /\ Drawn[4] = Some(Ok(Symbol("OpenParen")))
       /\ Drawn[5] = Some(Ok(Symbol("CloseParen")))

\* C5: every CreateTable statement parse builds and returns has at least one
\* column, and `CREATE TABLE t ()` is rejected with a Parse error.
C5_AtLeastOneColumn ==
    /\ (statement.some /\ statement.val.type = "CreateTable") =>
         Len(statement.val.columns) >= 1
    /\ (result.some /\ result.val.ok /\ result.val.val.type = "CreateTable") =>
         Len(result.val.val.columns) >= 1
    /\ (pc = "done" /\ EmptyColumnList) => Failed("Parse")

\* C5, witness: the `)` right after `(` is refused where a column name must be
C5_Witness ==
    /\ pc = "done"
    /\ Len(Drawn) = 5
    /\ Drawn[4] = Some(Ok(Symbol("OpenParen")))
    /\ Drawn[5] = Some(Ok(Symbol("CloseParen")))
    /\ result = Some(Err(Parse(<< "Expected identifier, got ", ")" >>)))

\* the character no token rule matches, when the next character of iter that is
\* not whitespace is one
Offending(iter) ==
    LET it == skip_whitespace(iter)
    IN  IF it # << >> /\ Head(it) \notin Digits /\ ~SymbolOf(Head(it)).some
        THEN Some(Head(it))
        ELSE None

\* the lexical error for character c
Unexpected(c) == Some(Some(Err(Parse(<< "Unexpected character ", c >>))))

\* C6: when the next non-whitespace character matches no token rule, a draw
\* yields Err(Parse) naming that character and does not consume it; an error
\* item is only ever yielded in front of such a character, so every later draw
\* yields the same error and no token behind the character is emitted.
C6_ErrorNotSkipped ==
    /\ [][(pc = "lex" /\ Offending(lexer.iter).some) =>
            /\ item' = Unexpected(Offending(lexer.iter).val)
            /\ lexer'.iter = skip_whitespace(lexer.iter)]_vars
    /\ []((pc = "lex" /\ item.some /\ item.val.some /\ ~item.val.val.ok) =>
            /\ Offending(lexer.iter).some
            /\ item = Unexpected(Offending(lexer.iter).val))

\* C6, witness: the error for `@` was yielded after a token, with a token
\* still behind the `@`
C6_Witness ==
    /\ pc = "lex"
    /\ input = << "1", "@", "1" >>
    /\ item = Unexpected("@")
    /\ lexer.iter = << "@", "1" >>

\* C7: the Lexer's item sequence is finite.  The Lexer's whole state is iter,
\* so its sequence ends iff no draw yields an item and leaves iter as it was:
\* every draw that yields a token or an error consumes a character.
C7_LexerSequenceFinite ==
    [][(pc = "lex" /\ item' # Some(None)) => Len(lexer'.iter) < Len(lexer.iter)]_vars

\* C8: a text that ends in the middle of the grammar makes parse return the
\* Parse error for an unexpected end of input.
C8_UnexpectedEndOfInput ==
    (pc = "done" /\ input \in { T_CreateOpen, T_CreateTable, W_DROP }) =>
      result = Some(Err(Parse(<< "Unexpected end of input" >>)))

\* the items the parser has taken out of its lexer: those drawn, less the one
\* that is still buffered
Consumed == Len(Drawn) - (IF lexer.peeked.some THEN 1 ELSE 0)

\* the length of the input: its characters, or the tokens of the stream
InputLen == IF lexer.kind = "Lexer" THEN Len(input) ELSE MaxTokens

\* the steps a place of the parser can take before an item is consumed
Rank(place) ==
    CASE place = "column_constraint" -> 2
      [] place \in { "parse_statement", "create_table_comma", "parse_semicolon" } -> 1
      [] OTHER -> 0

\* a bound on the steps parse has left
StepsLeft ==
    IF pc = "done" THEN 0 ELSE 3 * (InputLen + 1 - Consumed) + Rank(pc) + 1

\* C9: parse terminates: every step of parse lowers StepsLeft, which is never
\* negative, so parse returns within 3 * (length of the input + 2) steps; it
\* returns Ok or Err, having drawn no more items than the input has characters
\* (or the stream has tokens) and the end of input; and a text with an
\* unterminated quoted string ends in a Parse error.
C9_ParseTerminates ==
    /\ [][pc \notin { "new", "lex", "done" } => StepsLeft' < StepsLeft]_vars
    /\ [](pc \notin { "new", "lex" } => StepsLeft >= 0 /\ Len(Drawn) <= InputLen + 1)
    /\ [](pc = "done" => result.some)
    /\ []((pc = "done" /\ "'" \in Range(input)) => Failed("Parse"))

\* C9, witness: parse has returned for a text that opens a quoted string and
\* never closes it
C9_Witness ==
    /\ pc = "done"
    /\ input = << "'", "a" >>
    /\ result = Some(Err(Parse(<< "Unexpected character ", "'" >>)))

\* the characters of an identifier
IdentChars == Alphabetic \cup Digits \cup { "_" }

\* the token for the identifier text run: the keyword it spells, in any case,
\* and Ident(run) when it spells none
WordToken(run) ==
    IF \E k \in Keywords : to_str(k) = to_uppercase(run)
    THEN Keyword(CHOOSE k \in Keywords : to_str(k) = to_uppercase(run))
    ELSE Ident(run)

\* C10: an alphabetic character at the lexer's position starts an identifier
\* scan: the draw consumes the maximal run of identifier characters and yields
\* Keyword(K) when the run spells a keyword, in any case, and Ident(run)
\* otherwise.
C10_IdentifierScan ==
    [][(pc = "lex" /\ skip_whitespace(lexer.iter) # << >>
          /\ Head(skip_whitespace(lexer.iter)) \in Alphabetic) =>
         LET run == CollectWhile(skip_whitespace(lexer.iter), IdentChars, << >>)
         IN  /\ item' = Some(Some(Ok(WordToken(run.val))))
             /\ lexer'.iter = run.iter]_vars

\* t is all digits
AllDigits(t) == \A i \in 1..Len(t) : t[i] \in Digits

\* t is empty, or a `.` and digits
IsFraction(t) == t = << >> \/ (t[1] = "." /\ AllDigits(Tail(t)))

\* t is empty, or `e` or `E`, an optional sign, and digits
IsExponent(t) ==
    \/ t = << >>
    \/ /\ t[1] \in { "e", "E" }
       /\ \/ AllDigits(Tail(t))
          \/ Len(t) >= 2 /\ t[2] \in { "+", "-" } /\ AllDigits(SubSeq(t, 3, Len(t)))

\* t is a digit run, then an optional fraction, then an optional exponent
NumberShape(t) ==
    \E i \in 1..Len(t) : \E j \in i..Len(t) :
      /\ AllDigits(SubSeq(t, 1, i))
      /\ IsFraction(SubSeq(t, i + 1, j))
      /\ IsExponent(SubSeq(t, j + 1, Len(t)))

\* the length of the longest prefix of chars that has the shape of a number
NumberLen(chars) ==
    CHOOSE n \in 1..Len(chars) :
      /\ NumberShape(SubSeq(chars, 1, n))
      /\ \A m \in (n + 1)..Len(chars) : ~NumberShape(SubSeq(chars, 1, m))

\* C11: a digit at the lexer's position (after whitespace) makes the draw yield
\* one Number token whose text is exactly the characters consumed: the longest
\* run of digits, optional `.` and digits, optional `e`/`E`, optional sign and
\* digits; what is left of the input starts right after that text.
C11_NumberScan ==
    [][(pc = "lex" /\ skip_whitespace(lexer.iter) # << >>
          /\ Head(skip_whitespace(lexer.iter)) \in Digits) =>
         LET chars == skip_whitespace(lexer.iter)
             n == NumberLen(chars)
         IN  /\ item' = Some(Some(Ok(Number(SubSeq(chars, 1, n)))))
             /\ lexer'.iter = SubSeq(chars, n + 1, Len(chars))]_vars

\* C11, witness: 1.5e-3 was lexed to the one token Number("1.5e-3")
C11_Witness ==
    /\ pc = "lex"
    /\ input = << "1", ".", "5", "e", "-", "3" >>
    /\ item = Some(Some(Ok(Number(<< "1", ".", "5", "e", "-", "3" >>))))
    /\ lexer.iter = << >>

\* the token of the two characters a and b, when they spell one
TwoCharSymbol(a, b) ==
    CASE a = "!" /\ b = "=" -> Some(Symbol("NotEqual"))
      [] a = "<" /\ b = "=" -> Some(Symbol("LessThanOrEqual"))
      [] a = ">" /\ b = "=" -> Some(Symbol("GreaterThanOrEqual"))
      [] a = "<" /\ b = ">" -> Some(Symbol("LessOrGreaterThan"))
      [] OTHER -> None

\* the token of the one character a of `!`, `<`, `>`
OneCharSymbol(a) ==
    CASE a = "!" -> Symbol("Exclamation")
      [] a = "<" -> Symbol("LessThan")
      [] a = ">" -> Symbol("GreaterThan")

\* C12: the symbol scan is greedy over two characters.  With `!`, `<` or `>` at
\* the lexer's position (after whitespace), the draw yields the one token of
\* `!=`, `<=`, `>=` or `<>` and consumes both characters when the next
\* character completes it; otherwise it yields the single-character token and
\* leaves the next character, if any, unconsumed.
C12_GreedySymbol ==
    [][(pc = "lex" /\ skip_whitespace(lexer.iter) # << >>
          /\ Head(skip_whitespace(lexer.iter)) \in { "!", "<", ">" }) =>
         LET chars == skip_whitespace(lexer.iter)
             two == IF Len(chars) >= 2 THEN TwoCharSymbol(chars[1], chars[2]) ELSE None
         IN  IF two.some
             THEN /\ item' = Some(Some(Ok(two.val)))
                  /\ lexer'.iter = Tail(Tail(chars))
             ELSE /\ item' = Some(Some(Ok(OneCharSymbol(chars[1]))))
                  /\ lexer'.iter = Tail(chars)]_vars

\* C12, witness: `<>` was lexed to one token, with `=` left behind it
C12_Witness ==
    /\ pc = "lex"
    /\ input = << "<", ">", "=" >>
    /\ item = Some(Some(Ok(Symbol("LessOrGreaterThan"))))
    /\ lexer.iter = << "=" >>

\* the item the parser's step looks at: the one buffered before the step, or
\* else the one the step draws
Examined == lexer'.drawn[Consumed + 1]

\* the DEFAULT keyword
Default == Some(Ok(Keyword("Default")))

\* C13: DEFAULT is never silently ignored.  When the constraint loop of a
\* column meets DEFAULT, parse returns a Parse error for it and the column is
\* not added to the table; no statement parse returns has a DEFAULT among its
\* tokens; and the text `CREATE TABLE t (a INT DEFAULT 1)` is an error.
C13_DefaultNotIgnored ==
    /\ [][(pc = "column_constraint" /\ Examined = Default) =>
            /\ pc' = "done"
            /\ result'.some /\ ~result'.val.ok /\ result'.val.err.kind = "Parse"
            /\ columns' = columns
            /\ statement' = None]_vars
    /\ []((result.some /\ result.val.ok) =>
            \A i \in 1..Len(Drawn) : Drawn[i] # Default)
    /\ []((pc = "done" /\ input = T_Default) => (result.some /\ ~result.val.ok))

\* C13, witness: parse failed on a DEFAULT that follows a column's type
C13_Witness ==
    /\ pc = "done"
    /\ column.some /\ column.val.datatype # ""
    /\ LastDrawn = Default
    /\ Failed("Parse") /\ Head(result.val.err.msg) = "Unexpected keyword "

\* where the column being parsed starts: the last `(` or `,` the parser consumed
ColumnStart ==
    CHOOSE i \in 1..Consumed :
      /\ Drawn[i] \in { Some(Ok(Symbol("OpenParen"))), Some(Ok(Symbol("Comma"))) }
      /\ \A j \in (i + 1)..Consumed :
           Drawn[j] \notin { Some(Ok(Symbol("OpenParen"))), Some(Ok(Symbol("Comma"))) }

\* the constraint tokens consumed for the column being parsed: what follows
\* its name and its type
Clauses == SubSeq(Drawn, ColumnStart + 3, Consumed)

\* keyword kw is among the constraint tokens of the column
Has(kw) == \E i \in 1..Len(Clauses) : Clauses[i] = Some(Ok(Keyword(kw)))

\* the table named by the last REFERENCES clause of the column
Referenced ==
    LET last == CHOOSE i \in 1..Len(Clauses) :
                  /\ Clauses[i] = Some(Ok(Keyword("References")))
                  /\ \A j \in (i + 1)..Len(Clauses) :
                       Clauses[j] # Some(Ok(Keyword("References")))
    IN  Clauses[last + 1].val.val.text

\* the flags of the column being parsed are those of the clauses met
FlagsMatchClauses ==
    /\ column.val.primary_key <=> Has("Primary")
    /\ column.val.unique <=> Has("Unique")
    /\ column.val.index <=> Has("Index")
    /\ column.val.references.some <=> Has("References")
    /\ Has("References") => column.val.references = Some(Referenced)

\* the column a PRIMARY KEY and UNIQUE
PrimaryUniqueColumn ==
    [ Plain(<< "a" >>, "Integer") EXCEPT !.primary_key = TRUE, !.unique = TRUE ]

\* C14: column constraints are accepted in any order and the Column does not
\* depend on the order: between two clauses the column's primary_key, unique
\* and index are true exactly for the clauses met and references is Some(x)
\* exactly when REFERENCES x was met; and `PRIMARY KEY UNIQUE` and
\* `UNIQUE PRIMARY KEY` parse to the same Column.
C14_ConstraintOrder ==
    /\ pc = "column_constraint" => FlagsMatchClauses
    /\ (pc = "done" /\ input \in { T_PrimaryUnique, T_UniquePrimary }) =>
         result = Some(Ok(CreateTable(<< "t" >>, << PrimaryUniqueColumn >>)))

\* the NULL and NOT keywords
Null == Some(Ok(Keyword("Null")))
Not == Some(Ok(Keyword("Not")))

\* the parser has consumed the `(` that opens the column list
InColumns == \E i \in 1..Consumed : Drawn[i] = Some(Ok(Symbol("OpenParen")))

\* the keywords that need a follower
Leaders == { Some(Ok(Keyword(k))) : k \in { "Primary", "Not", "References" } }

\* the column's constraint tokens hold a NULL clause: a NULL that is not the
\* follower of NOT, nor stands where the follower of PRIMARY or REFERENCES must
StandaloneNull ==
    \E i \in 1..Len(Clauses) :
      Clauses[i] = Null /\ (i = 1 \/ Clauses[i - 1] \notin Leaders)

\* the column's constraint tokens hold NOT NULL
NotNullClause ==
    \E i \in 1..(Len(Clauses) - 1) : Clauses[i] = Not /\ Clauses[i + 1] = Null

\* the input has a NULL / NOT NULL conflict inside a column and nothing wrong
\* before it
NullConflict ==
    \/ input \in { T_NotNullNull, T_NullNotNull }
    \/ InColumns /\ StandaloneNull /\ NotNullClause

\* C15: error kinds are partitioned by cause: when parse fails, the error is
\* Value exactly when the failure is a NULL / NOT NULL conflict inside a column,
\* Parse for every other failure, and never Internal.
C15_ErrorKinds ==
    (pc = "done" /\ result.some /\ ~result.val.ok) =>
      /\ result.val.err.kind \in { "Parse", "Value" }
      /\ result.val.err.kind = "Value" <=> NullConflict

\* the partition of C15 on token streams alone
ErrorKindsOfTokens ==
    (pc = "done" /\ result.some /\ ~result.val.ok /\ lexer.kind = "Tokens") =>
      /\ result.val.err.kind \in { "Parse", "Value" }
      /\ result.val.err.kind = "Value" <=> NullConflict

FailsWithParse ==
    /\ pc' = "done"
    /\ result'.some /\ ~result'.val.ok /\ result'.val.err.kind = "Parse"
    /\ columns' = columns
    /\ statement' = None

\* the keywords the constraint loop has an arm for
ConstraintKeywords == { "Primary", "Null", "Not", "Unique", "Index", "References" }

\* the item is an identifier
IsIdent(it) == it.some /\ it.val.ok /\ it.val.val.type = "Ident"

\* the item is keyword k
IsKeyword(it, k) == it = Some(Ok(Keyword(k)))

\* C17 in the constraint loop: PRIMARY not followed by KEY, NOT not followed
\* by NULL and REFERENCES not followed by an identifier fail with a Parse error
\* and no Column; a keyword the loop has no arm for fails with the Parse error
\* that names it.
FollowerRequired ==
    /\ [][(pc = "primary_key" /\ ~IsKeyword(Examined, "Key")) => FailsWithParse]_vars
    /\ [][(pc = "not_null" /\ ~IsKeyword(Examined, "Null")) => FailsWithParse]_vars
    /\ [][(pc = "references" /\ ~IsIdent(Examined)) => FailsWithParse]_vars
    /\ [][\A k \in Keywords \ ConstraintKeywords :
            (pc = "column_constraint" /\ IsKeyword(Examined, k)) =>
              /\ FailsWithParse
              /\ result' = Some(Err(Parse(<< "Unexpected keyword " >> \o to_str(k))))]_vars

\* C17: a constraint keyword that needs a follower fails with a Parse error
\* when the follower is missing or different, and any keyword in the
\* constraint position other than PRIMARY, NULL, NOT, UNIQUE, INDEX, REFERENCES
\* is a Parse error naming that keyword: `CREATE TABLE t (a INT KEY)` fails
\* with the Parse error that names KEY.
C17_FollowerRequired ==
    /\ FollowerRequired
    /\ []((pc = "done" /\ input = T_Key) =>
            result = Some(Err(Parse(<< "Unexpected keyword " >> \o W_KEY))))

\* the tokens the optional-token helper called at a place of the parser takes
Accepted(place) ==
    CASE place = "column_constraint" -> { Keyword(k) : k \in Keywords }
      [] place = "create_table_comma" -> { Symbol("Comma") }
      [] place = "parse_semicolon" -> { Symbol("Semicolon") }

\* the places where the parser calls peek, and where it calls next_if_keyword
\* or next_if_token
PeekPlaces == { "parse_statement", "parse_end" }
NextIfPlaces == { "column_constraint", "create_table_comma", "parse_semicolon" }

\* C18: the parser holds one token of lookahead and inspecting it never
\* consumes it.  What is buffered is the last item drawn, and a step with an
\* item buffered draws none; peek consumes nothing and leaves the item it
\* looked at buffered; next_if_keyword and next_if_token consume the item they
\* looked at when it is a token the predicate accepts, and otherwise (another
\* token, the end of input, a lexer error) consume nothing and leave it
\* buffered.
C18_OneTokenLookahead ==
    /\ [](lexer.peeked.some => lexer.peeked.val = LastDrawn)
    /\ [][(pc \notin { "new", "lex", "done" } /\ lexer.peeked.some) =>
            lexer'.drawn = lexer.drawn]_vars
    /\ [][(pc \in PeekPlaces) =>
            /\ Consumed' = Consumed
            /\ lexer'.peeked = Some(Examined)]_vars
    /\ [][(pc \in NextIfPlaces) =>
            IF Examined.some /\ Examined.val.ok /\ Examined.val.val \in Accepted(pc)
            THEN Consumed' = Consumed + 1 /\ lexer'.peeked = None
            ELSE Consumed' = Consumed /\ lexer'.peeked = Some(Examined)]_vars

\* C18, witness: the `,` test looked at `)` and left it buffered for the
\* next_expect that follows
C18_Witness ==
    /\ pc = "create_table_close"
    /\ lexer.peeked = Some(Some(Ok(Symbol("CloseParen"))))
    /\ Consumed = Len(Drawn) - 1
    /\ Len(columns) = 1

\* the item is a lexical error
IsError(it) == it.some /\ ~it.val.ok

\* C19: the first lexical error the parser reaches aborts the parse and is the
\* error returned.  An error the Lexer yielded is the last item the parser
\* drew; until parse returns it stays buffered, which is how it survives the
\* optional-token helpers that answer None for it (the optional `;`, the `,`
\* test, the constraint-keyword test); and parse returns exactly that error.
C19_FirstErrorReturned ==
    pc \notin { "new", "lex" } =>
      \A i \in 1..Len(Drawn) :
        IsError(Drawn[i]) =>
          /\ i = Len(Drawn)
          /\ pc # "done" => lexer.peeked = Some(Drawn[i])
          /\ pc = "done" => result = Some(Err(Drawn[i].val.err))

\* C19, witness: the statement was parsed, the test for the optional `;` met
\* a lexical error, and parse returned it
C19_Witness ==
    /\ pc = "done"
    /\ statement.some
    /\ Len(AfterStatement) = 1
    /\ LastDrawn = Some(Err(StreamError))
    /\ result = Some(Err(StreamError))

\* the nullable of the column being parsed is that of the clauses met
NullableMatchesClauses ==
    pc = "column_constraint" =>
      /\ column.val.nullable = Some(TRUE) <=> (StandaloneNull /\ ~NotNullClause)
      /\ column.val.nullable = Some(FALSE) <=> (NotNullClause /\ ~StandaloneNull)
      /\ column.val.nullable = None <=> (~StandaloneNull /\ ~NotNullClause)

\* the constraint loop goes on with the column as it is
LoopGoesOn == pc' = "column_constraint" /\ column' = column /\ result' = None

\* a NULL after NULL and a NOT NULL after NOT NULL are accepted, and a column
\* is pushed as the constraint loop left it
RepeatAccepted ==
    /\ [][(pc = "column_constraint" /\ Examined = Null
             /\ column.val.nullable = Some(TRUE)) => LoopGoesOn]_vars
    /\ [][(pc = "not_null" /\ Examined = Null
             /\ column.val.nullable = Some(FALSE)) => LoopGoesOn]_vars
    /\ [][(columns' # columns /\ columns' # << >>) =>
            (pc = "column_constraint" /\ columns' = Append(columns, column.val))]_vars

\* the column a NULL
NullableColumn == [ Plain(<< "a" >>, "Integer") EXCEPT !.nullable = Some(TRUE) ]

\* C20: in every Column of a parsed statement, nullable is Some(true) iff the
\* column's constraints have NULL and no NOT NULL, Some(false) iff they have
\* NOT NULL and no standalone NULL, and None iff they have neither; repeating
\* NULL or NOT NULL is accepted, and `CREATE TABLE t (a INT NULL NULL)` parses
\* to the nullable column a.
C20_Nullable ==
    /\ []NullableMatchesClauses
    /\ RepeatAccepted
    /\ []((pc = "done" /\ input = T_NullNull) =>
            result = Some(Ok(CreateTable(<< "t" >>, << NullableColumn >>))))

====
